---- MODULE Spec2Model ----
(***************************************************************************)
(* ITD-SDK-js: the authentication / session-refresh subsystem of ITDClient *)
(* (client.js), AuthManager (auth.js) and token-storage.js.                *)
(*                                                                         *)
(* One step of the model is one event-loop task: a call made by the user,  *)
(* or the arrival of a network response together with every continuation   *)
(* that runs before the next network event (promise continuations and the  *)
(* synchronous fs calls of token-storage.js run to completion first).      *)
(*                                                                         *)
(* Strings whose structure matters (the Cookie header) are sequences of    *)
(* atoms: a separator character ("=", ";", " ") or an opaque chunk.        *)
(***************************************************************************)
EXTENDS Integers, Sequences, FiniteSets, TLC

\* ---------------------------------------------------------------- bounds
NReq == 2          \* requests the caller issues through the client
MaxRefresh == 2    \* invocations of refreshAccessToken() in one run

Req == 1..NReq
Slot == 1..MaxRefresh

\* ---------------------------------------------------------------- values
Null == "null"                       \* JS null / undefined
TokenNames == <<"t1", "t2", "t3", "t4">>
\* The server issues a new accessToken on every refresh: the k-th invocation's
ServerToken(k) == TokenNames[k]
InitTokens == {Null, "t0"}           \* options.accessToken / ITD_ACCESS_TOKEN

Truthy(t) == t # Null /\ t # ""

NoHeader == <<>>                     \* no Authorization header on the config
Bearer(t) == <<"Bearer", t>>
ExplicitHeaders == {NoHeader, <<"Basic", "x">>}

ApiUrl == "/api/posts"
RefreshUrl == "/api/v1/auth/refresh"

StatusOk == 200
StatusUnauthorized == 401
NoStatus == 0                        \* error.response undefined: timeout, network

\* ------------------------------------------------------------ cookie jar
\* tough-cookie's jar for the base URL, in creation order.
Cookie(k, v) == [key |-> k, value |-> v]

DdgNames == {"__ddg1_"}

\* CookieJar.setCookieSync: a cookie of the same name is replaced in place
\* (it keeps its creation time), a new one is appended.
setCookieSync(jar, c) ==
    IF \E i \in DOMAIN jar : jar[i].key = c.key
    THEN [i \in DOMAIN jar |-> IF jar[i].key = c.key THEN c ELSE jar[i]]
    ELSE Append(jar, c)

\* A cookie set with an expiry in the past: getCookiesSync no longer
\* returns a cookie of that name
expireCookie(jar, c) == SelectSeq(jar, LAMBDA x : x.key # c.key)

RECURSIVE SetAll(_, _)
\* refreshAccessToken's loop over response.headers['set-cookie']: a cookie
\* string that does not parse is skipped.
SetAll(jar, cs) ==
    IF cs = <<>> THEN jar
    ELSE SetAll(IF ~Head(cs).ok THEN jar
                ELSE IF Head(cs).expired THEN expireCookie(jar, Head(cs).cookie)
                ELSE setCookieSync(jar, Head(cs).cookie),
                Tail(cs))

hasRefreshToken_Always(jar) == TRUE

\* AuthManager.hasRefreshToken
hasRefreshToken(jar) == \E i \in DOMAIN jar : jar[i].key = "refresh_token"

\* ------------------------------------------------------ credential store
\* The .env file: content is its lines joined by "\n", so a trailing newline
\* shows as a last empty line. A line is KEY=value, or empty.
Line(k, v) == [key |-> k, val |-> v]
BlankLine == Line("", "")
TokenKey == "ITD_ACCESS_TOKEN"
EnvFile(e, ls) == [exists |-> e, lines |-> ls]

\* /^ITD_ACCESS_TOKEN=.*$/m .test(content)
tokenRegexTest(lines) == \E i \in DOMAIN lines : lines[i].key = TokenKey

FirstMatch(lines) ==
    CHOOSE i \in DOMAIN lines :
        /\ lines[i].key = TokenKey
        /\ \A j \in DOMAIN lines : lines[j].key = TokenKey => i <= j

\* content.replace(tokenRegex, ...) without the g flag: the first match only
ReplaceToken(lines, newToken) ==
    [lines EXCEPT ![FirstMatch(lines)] = Line(TokenKey, newToken)]

\* content += `\nITD_ACCESS_TOKEN=${newToken}\n`
AppendToken(lines, newToken) == lines \o <<Line(TokenKey, newToken), BlankLine>>

saveAccessToken_Create(file, newToken, ioOk) ==
    IF ~ioOk THEN [file |-> file, ok |-> FALSE]
    ELSE [file |-> EnvFile(TRUE, IF tokenRegexTest(file.lines)
                                 THEN ReplaceToken(file.lines, newToken)
                                 ELSE AppendToken(file.lines, newToken)),
          ok |-> TRUE]

saveAccessToken_AlwaysAppend(file, newToken, ioOk) ==
    IF ~file.exists \/ ~ioOk THEN [file |-> file, ok |-> FALSE]
    ELSE [file |-> EnvFile(TRUE, AppendToken(file.lines, newToken)), ok |-> TRUE]

\* token-storage.js saveAccessToken: the new file and the returned boolean.
\* ioOk = FALSE: readFileSync or writeFileSync throws.
saveAccessToken(file, newToken, ioOk) ==
    IF ~file.exists THEN [file |-> file, ok |-> FALSE]
    ELSE IF ~ioOk THEN [file |-> file, ok |-> FALSE]
    ELSE LET content == IF tokenRegexTest(file.lines)
                        THEN ReplaceToken(file.lines, newToken)
                        ELSE AppendToken(file.lines, newToken)
         IN [file |-> EnvFile(TRUE, content), ok |-> TRUE]

\* The values a reader of the file finds on its ITD_ACCESS_TOKEN lines.
EnvTokens(file) ==
    IF file.exists
    THEN {file.lines[i].val : i \in {j \in DOMAIN file.lines : file.lines[j].key = TokenKey}}
    ELSE {}

\* ---------------------------------------------------------- cookie store
CookiesFile(e, c) == [exists |-> e, content |-> c]

\* token-storage.js saveCookieHeader: writeFileSync overwrites (or creates).
saveCookieHeader(file, newCookieHeader, ioOk) ==
    IF ioOk THEN [file |-> CookiesFile(TRUE, newCookieHeader), ok |-> TRUE]
    ELSE [file |-> file, ok |-> FALSE]

\* c.key === 'refresh_token' || c.key.startsWith('__ddg') || c.key === 'is_auth'
Important_All(c) == TRUE

Important(c) == c.key = "refresh_token" \/ c.key \in DdgNames \/ c.key = "is_auth"

\* importantCookies.map(c => `${c.key}=${c.value}`).join('; ')
RECURSIVE JoinCookies(_)
JoinCookies(cs) ==
    IF cs = <<>> THEN <<>>
    ELSE IF Len(cs) = 1 THEN <<Head(cs).key, "=">> \o Head(cs).value
    ELSE <<Head(cs).key, "=">> \o Head(cs).value \o <<";", " ">> \o JoinCookies(Tail(cs))

\* String.prototype.trim on a sequence of atoms
RECURSIVE TrimLeft(_)
TrimLeft(s) == IF s # <<>> /\ Head(s) = " " THEN TrimLeft(Tail(s)) ELSE s
RECURSIVE TrimRight(_)
TrimRight(s) ==
    IF s # <<>> /\ s[Len(s)] = " " THEN TrimRight(SubSeq(s, 1, Len(s) - 1)) ELSE s
Trim(s) == TrimRight(TrimLeft(s))

\* The position of the first sep in s, or 0
RECURSIVE IndexFrom(_, _, _)
IndexFrom(s, sep, i) ==
    IF i > Len(s) THEN 0 ELSE IF s[i] = sep THEN i ELSE IndexFrom(s, sep, i + 1)
IndexOf(s, sep) == IndexFrom(s, sep, 1)

\* String.prototype.split(sep)
RECURSIVE Split(_, _)
Split(s, sep) ==
    LET i == IndexOf(s, sep)
    IN IF i = 0 THEN <<s>>
       ELSE <<SubSeq(s, 1, i - 1)>> \o Split(SubSeq(s, i + 1, Len(s)), sep)

RECURSIVE LoadParts_FirstValuePart(_, _)
LoadParts_FirstValuePart(jar, parts) ==
    IF parts = <<>> THEN jar
    ELSE LET part == Trim(Head(parts))
             i == IndexOf(part, "=")
             name == Trim(SubSeq(part, 1, i - 1))
             value == Head(Split(SubSeq(part, i + 1, Len(part)), "="))
         IN IF part # <<>> /\ i > 1 /\ Len(name) = 1
            THEN LoadParts_FirstValuePart(setCookieSync(jar, Cookie(name[1], value)),
                                          Tail(parts))
            ELSE LoadParts_FirstValuePart(jar, Tail(parts))

\* for (const part of parts): [name, ...valueParts] = part.split('=');
\* value = valueParts.join('='); setCookieSync(`${name}=${value}; ...`)
RECURSIVE LoadParts(_, _)
LoadParts(jar, parts) ==
    IF parts = <<>> THEN jar
    ELSE LET part == Trim(Head(parts))
             i == IndexOf(part, "=")
             name == Trim(SubSeq(part, 1, i - 1))
             value == Trim(SubSeq(part, i + 1, Len(part)))
         IN IF part # <<>> /\ i > 1 /\ Len(name) = 1
            THEN LoadParts(setCookieSync(jar, Cookie(name[1], value)), Tail(parts))
            ELSE LoadParts(jar, Tail(parts))

loadCookiesFromFile_Skip(file) == <<>>

\* ITDClient._loadCookiesFromFile into the empty jar of the constructor
loadCookiesFromFile(file) ==
    IF ~file.exists THEN <<>>
    ELSE IF Trim(file.content) = <<>> THEN <<>>
    ELSE LoadParts(<<>>, Split(Trim(file.content), ";"))

\* ----------------------------------------------------------- interceptors
RequestInterceptor_Overwrite(token, headers) ==
    IF Truthy(token) THEN Bearer(token) ELSE headers

\* axios.interceptors.request.use: the Authorization header the request is
\* sent with, from the session token and the header the config carries.
RequestInterceptor(token, headers) ==
    IF Truthy(token) /\ headers = NoHeader THEN Bearer(token) ELSE headers

IsUnauthorized_AnyError(status) == status # StatusOk

\* status !== 401 is the pass-through test of the response interceptor
IsUnauthorized(status) == status = StatusUnauthorized

IsRefreshUrl_Never(url) == FALSE

\* url.includes('/api/v1/auth/refresh')
IsRefreshUrl(url) == url = RefreshUrl

PendingRefresh_Never(marker) == FALSE

\* this._refreshPromise is set (0 models null)
PendingRefresh(marker) == marker # 0

Finally_Keep(marker) == marker

\* .finally(() => { this._refreshPromise = null; }): the marker once the
\* invocation it holds has returned
Finally(marker) == 0

\* The error handler of the response interceptor up to the refresh:
\* "throw" rethrows the error, "refresh" marks the request and goes on.
OnRejected(hasConfig, status, retried, url) ==
    IF ~hasConfig THEN "throw"
    ELSE IF ~IsUnauthorized(status) THEN "throw"
    ELSE IF retried THEN "throw"
    ELSE IF IsRefreshUrl(url) THEN "throw"
    ELSE "refresh"

\* client.setAccessToken: this.accessToken = token || null
setAccessToken(token) == IF Truthy(token) THEN token ELSE Null

\* -------------------------------------------------------- server answers
\* The answers to a request of the caller: a status, or no response at all;
\* hasConfig = FALSE is an error object without a config.
ApiOutcomes ==
    {[status |-> s, hasConfig |-> TRUE] : s \in {StatusOk, StatusUnauthorized, 500, NoStatus}}
    \cup {[status |-> NoStatus, hasConfig |-> FALSE]}

SetCookie(k, v) == [ok |-> TRUE, expired |-> FALSE, cookie |-> Cookie(k, v)]
Malformed == [ok |-> FALSE, expired |-> FALSE, cookie |-> Cookie("", <<>>)]
Expire(k) == [ok |-> TRUE, expired |-> TRUE, cookie |-> Cookie(k, <<>>)]

\* The Set-Cookie headers of a refresh response (<<>>: the header is absent)
Rotated == <<SetCookie("refresh_token", <<"r2">>), Malformed, SetCookie("sid", <<"s">>)>>
SetCookieChoices == {<<>>, Rotated}
\* The same with a cookie of the DDoS guard
Guarded == Rotated \o <<SetCookie("__ddg1_", <<"d">>)>>
\* Values that contain "=" (base64 padding), and an empty value
Padded ==
    <<SetCookie("refresh_token", <<"r2", "=", "=">>),
      SetCookie("__ddg1_", <<"a", "=", "b">>),
      SetCookie("is_auth", <<>>),
      SetCookie("sid", <<"s">>)>>
\* The server takes the session cookies back
Revoked == <<Expire("refresh_token"), Expire("is_auth"), SetCookie("sid", <<"s">>)>>

RefreshResponse(s, t, sc, c) == [status |-> s, accessToken |-> t, setCookie |-> sc, code |-> c]

\* The answers the refresh endpoint (or the network) can give invocation k
RefreshResponses(k, setCookies) ==
    {RefreshResponse(StatusOk, ServerToken(k), sc, "") : sc \in setCookies}
    \cup { RefreshResponse(StatusOk, Null, <<>>, ""),
           RefreshResponse(StatusOk, "", <<>>, ""),
           RefreshResponse(201, ServerToken(k), <<>>, ""),
           RefreshResponse(StatusUnauthorized, Null, <<>>, "REFRESH_TOKEN_MISSING"),
           RefreshResponse(StatusUnauthorized, Null, <<>>, ""),
           RefreshResponse(500, Null, <<>>, ""),
           RefreshResponse(NoStatus, Null, <<>>, "") }

\* axios' default validateStatus: a 2xx status resolves, anything else rejects
Resolves(status) == status >= 200 /\ status < 300

\* ------------------------------------------------- refreshAccessToken
Threw == "THREW"                     \* the call rejects instead of returning

RefreshCatch_Rethrow(resp) == Threw

\* catch (error) { console.error(...); return null; }
RefreshCatch(resp) == Null

IsRefreshSuccess_AnyToken(resp) == Truthy(resp.accessToken)

\* response.status === 200 && response.data?.accessToken
IsRefreshSuccess(resp) == resp.status = StatusOk /\ Truthy(resp.accessToken)

\* The cookie-store file after the filter-and-save block of a refresh
PersistCookies(jar, file, ioOk) ==
    LET importantCookies == SelectSeq(jar, Important)
    IN IF Len(importantCookies) > 0
       THEN saveCookieHeader(file, JoinCookies(importantCookies), ioOk).file
       ELSE file

Session(tok, jar, env, cf) ==
    [accessToken |-> tok, cookieJar |-> jar, envFile |-> env, cookiesFile |-> cf]

Outcome(ret, ses, saved) == [ret |-> ret, ses |-> ses, saved |-> saved]

SuccessPath_RequireSave(resp, ses, envIo, cookieIo) ==
    IF saveAccessToken(ses.envFile, resp.accessToken, envIo).ok /\ cookieIo
    THEN Outcome(resp.accessToken,
                 Session(setAccessToken(resp.accessToken), ses.cookieJar,
                         saveAccessToken(ses.envFile, resp.accessToken, envIo).file,
                         ses.cookiesFile), TRUE)
    ELSE Outcome(Null, ses, FALSE)

\* The body of if (response.status === 200 && response.data?.accessToken)
SuccessPath(resp, ses, envIo, cookieIo) ==
    LET newToken == resp.accessToken
        saved == saveAccessToken(ses.envFile, newToken, envIo)
        jar2 == IF resp.setCookie # <<>>
                THEN SetAll(ses.cookieJar, resp.setCookie) ELSE ses.cookieJar
        cf2 == IF resp.setCookie # <<>>
               THEN PersistCookies(jar2, ses.cookiesFile, cookieIo) ELSE ses.cookiesFile
    IN Outcome(newToken, Session(setAccessToken(newToken), jar2, saved.file, cf2), saved.ok)

AfterPost_StoreFirst(resp, ses, envIo, cookieIo) ==
    IF ~Resolves(resp.status) THEN Outcome(Null, ses, FALSE)
    ELSE IF IsRefreshSuccess(resp) THEN SuccessPath(resp, ses, envIo, cookieIo)
    ELSE Outcome(Null, [ses EXCEPT !.accessToken = setAccessToken(resp.accessToken)],
                 FALSE)

\* AuthManager.refreshAccessToken from the moment the POST is answered: what
\* it returns and the session it leaves. An error status reaches the catch
\* through the response interceptor, which rethrows it (see RefreshRespond).
AfterPost(resp, ses, envIo, cookieIo) ==
    IF ~Resolves(resp.status) THEN Outcome(RefreshCatch(resp), ses, FALSE)
    ELSE IF IsRefreshSuccess(resp) THEN SuccessPath(resp, ses, envIo, cookieIo)
    ELSE Outcome(Null, ses, FALSE)

\* ------------------------------------------------------------------ state
VARIABLES
    accessToken,      \* client.accessToken
    cookieJar,        \* client.cookieJar, the cookies for baseUrl
    envFile,          \* the file at client.envPath
    cookiesFile,      \* the file at client.cookiesPath
    refreshPromise,   \* client._refreshPromise: 0, or the invocation it holds
    req,              \* the caller's requests
    rf                \* the invocations of refreshAccessToken()

vars == <<accessToken, cookieJar, envFile, cookiesFile, refreshPromise, req, rf>>

NoResult == [kind |-> "none", status |-> NoStatus, attempt |-> 0]
Response(s, n) == [kind |-> "response", status |-> s, attempt |-> n]
Error(s, n) == [kind |-> "error", status |-> s, attempt |-> n]

\* A call of the caller: op is the operation ("get": a plain request
\* through client.get / post / ...), ret what the operation returned, was
\* the token and the jar a logout() found when it was called (kept until it
\* returns)
IdleReq ==
    [st |-> "idle", url |-> ApiUrl, hdr |-> NoHeader, retried |-> FALSE,
     join |-> 0, sends |-> 0, res |-> NoResult, op |-> "get", ret |-> "none",
     was |-> <<>>]

NotAnswered == -1
FreeSlot ==
    [st |-> "free", by |-> "", hdr |-> NoHeader, ret |-> Null, posted |-> FALSE,
     status |-> NotAnswered]

EnvWithToken == EnvFile(TRUE, <<Line("ITD_BASE_URL", "u"), Line(TokenKey, "t0"), BlankLine>>)
EnvWithoutToken == EnvFile(TRUE, <<Line("ITD_BASE_URL", "u")>>)
EnvMissing == EnvFile(FALSE, <<>>)

CookiesWithRefresh ==
    CookiesFile(TRUE, <<"refresh_token", "=", "r1", ";", " ", "is_auth", "=", "1">>)
CookiesWithoutRefresh == CookiesFile(TRUE, <<"sid", "=", "s">>)
CookiesMissing == CookiesFile(FALSE, <<>>)

\* The state the constructor leaves, for the files and the token it finds
Constructed(tokens, envFiles, cookiesFiles) ==
    /\ accessToken \in tokens
    /\ envFile \in envFiles
    /\ cookiesFile \in cookiesFiles
    /\ cookieJar = loadCookiesFromFile(cookiesFile)
    /\ refreshPromise = 0
    /\ req = [r \in Req |-> IdleReq]
    /\ rf = [k \in Slot |-> FreeSlot]

Init == Constructed(InitTokens, {EnvWithToken}, {CookiesMissing, CookiesWithRefresh})

\* ---------------------------------------------------------------- actions
NextFree(rfs) == 1 + Cardinality({k \in Slot : rfs[k].st # "free"})
NextSlot == NextFree(rf)
CanInvoke == NextSlot \in Slot

\* An invocation that has returned ret: only the result is kept
Settled(ret, status) ==
    [FreeSlot EXCEPT !.st = "done", !.ret = ret, !.posted = TRUE, !.status = status]

\* refreshAccessToken() up to its first await: without a refresh_token
\* cookie it returns null at once, otherwise the POST is on its way, sent
\* through the request interceptor with no Authorization header of its own.
StartRefresh(by) ==
    IF ~hasRefreshToken(cookieJar)
    THEN [FreeSlot EXCEPT !.st = "done"]
    ELSE [FreeSlot EXCEPT !.st = "inflight", !.by = by, !.posted = TRUE,
                          !.hdr = RequestInterceptor(accessToken, NoHeader)]

\* A request that has ended: only its result and the number of sends are kept
Done(q, res) ==
    [q EXCEPT !.st = "done", !.hdr = NoHeader, !.retried = FALSE, !.join = 0,
              !.res = res, !.was = <<>>]

Bool(b) == IF b THEN "true" ELSE "false"

\* The operation of call q returns b; res is the last result of its request
Returned(q, b, res) == [Done(q, res) EXCEPT !.ret = Bool(b)]

\* The operation of call q awaits refreshAccessToken(), invocation n
Awaiting(q, res, n) ==
    [q EXCEPT !.st = "awaiting", !.hdr = NoHeader, !.retried = FALSE,
              !.join = n, !.res = res]

LogoutUrl == "/api/v1/auth/logout"

LogoutOk_Only200(res) == res.kind = "response" /\ res.status = StatusOk

ProfileUrl == "/api/users/me"

\* logout: response.status === 200 || response.status === 204
LogoutOk(res) == res.kind = "response" /\ res.status \in {StatusOk, 204}

NeedsRefresh_Never(q, res) == FALSE

\* validateAndRefreshToken's catch: error.response?.status === 401
NeedsRefresh(q, res) ==
    q.op = "validateAndRefreshToken" /\ res.kind = "error"
    /\ res.status = StatusUnauthorized

\* What the operation of call q does with the result res of its request,
\* when it makes no further call
Conclude(q, res) ==
    IF q.op = "logout" THEN Returned(q, LogoutOk(res), res)
    ELSE IF q.op = "validateAndRefreshToken"
    THEN Returned(q, res.kind = "response" /\ res.status = StatusOk, res)
    ELSE IF q.op = "createPost"
    THEN Returned(q, res.kind = "response" /\ res.status \in {StatusOk, 201}, res)
    ELSE Done(q, res)

Failed_Resolved(q, res, n) == Done(q, Response(StatusOk, q.sends + 1))

\* The error res of its request reaches the operation of call q: the catch
\* of validateAndRefreshToken calls refreshAccessToken(), invocation n, for
\* a 401; every other operation ends
Failed(q, res, n) ==
    IF NeedsRefresh(q, res)
    THEN IF StartRefresh("validateAndRefreshToken").posted
         THEN Awaiting(q, res, n)
         ELSE Returned(q, FALSE, res)
    ELSE Conclude(q, res)

\* The invocations after the error res reached the operation of call q
Invoked(rfs, q, res) ==
    IF NeedsRefresh(q, res)
    THEN [rfs EXCEPT ![NextFree(rfs)] = StartRefresh("validateAndRefreshToken")]
    ELSE rfs

Resume_FirstToken(reqs, k, ret, newTok) ==
    [r \in Req |->
        IF reqs[r].st = "waiting" /\ reqs[r].join = k
        THEN IF ~Truthy(ret)
             THEN Failed(reqs[r], Error(StatusUnauthorized, reqs[r].sends), NextSlot)
             ELSE [reqs[r] EXCEPT !.st = "sent", !.hdr = Bearer("t0"),
                                  !.retried = FALSE, !.join = 0,
                                  !.sends = reqs[r].sends + 1]
        ELSE reqs[r]]

\* The interceptor after `await this._refreshPromise` for the requests that
\* wait on invocation k, which returned ret (newTok: the session token then)
Resume(reqs, k, ret, newTok) ==
    [r \in Req |->
        IF reqs[r].st = "waiting" /\ reqs[r].join = k
        THEN IF ret = Threw
             THEN Conclude(reqs[r], Error(NoStatus, 0))
             ELSE IF ~Truthy(ret)
             THEN Failed(reqs[r], Error(StatusUnauthorized, reqs[r].sends), NextSlot)
             ELSE [reqs[r] EXCEPT !.st = "sent",
                                  !.hdr = RequestInterceptor(newTok, Bearer(ret)),
                                  !.retried = FALSE, !.join = 0,
                                  !.sends = reqs[r].sends + 1]
        ELSE reqs[r]]

Resolve_AlwaysTrue(reqs, k, ret) ==
    [r \in Req |->
        IF reqs[r].st = "awaiting" /\ reqs[r].join = k
        THEN Returned(reqs[r], TRUE, reqs[r].res)
        ELSE reqs[r]]

\* The operations that await refreshAccessToken() themselves, invocation k,
\* which returned ret: ensureAuthenticated and validateAndRefreshToken return
\* !!token
Resolve(reqs, k, ret) ==
    [r \in Req |->
        IF reqs[r].st = "awaiting" /\ reqs[r].join = k
        THEN Returned(reqs[r], ret # Threw /\ Truthy(ret), reqs[r].res)
        ELSE reqs[r]]

\* client.get / post / ...: the caller issues request r
Issue(r, headers) ==
    /\ req[r].st = "idle"
    /\ \A p \in Req : p < r => req[p].st # "idle"
    /\ req' = [req EXCEPT ![r].st = "sent",
                          ![r].hdr = RequestInterceptor(accessToken, headers),
                          ![r].sends = 1]
    /\ UNCHANGED <<accessToken, cookieJar, envFile, cookiesFile, refreshPromise, rf>>

\* removeAllCookiesSync on the jar of the constructor
removeAllCookiesSync(jar) == <<>>

\* The answer to request r arrives: the response interceptor runs, then the
\* operation that sent the request, up to its next await
Respond(r, out) ==
    /\ req[r].st = "sent"
    /\ LET q == req[r]
           d == OnRejected(out.hasConfig, out.status, q.retried, q.url)
           slot == StartRefresh("interceptor")
           ok == Response(out.status, q.sends)
           err == Error(out.status, q.sends)
           own == Error(StatusUnauthorized, q.sends)
           rf1 == [rf EXCEPT ![NextSlot] = slot]
           cleared == q.op = "logout" /\ LogoutOk(ok)
       IN IF Resolves(out.status)
          THEN /\ req' = [req EXCEPT ![r] = Conclude(q, ok)]
               /\ accessToken' = IF cleared THEN setAccessToken(Null) ELSE accessToken
               /\ cookieJar' = IF cleared THEN removeAllCookiesSync(cookieJar)
                               ELSE cookieJar
               /\ UNCHANGED <<refreshPromise, rf>>
          ELSE IF d = "throw"
          THEN /\ NeedsRefresh(q, err) => CanInvoke
               /\ req' = [req EXCEPT ![r] = Failed(q, err, NextSlot)]
               /\ rf' = Invoked(rf, q, err)
               /\ UNCHANGED <<accessToken, cookieJar, refreshPromise>>
          ELSE IF PendingRefresh(refreshPromise)
          THEN /\ req' = [req EXCEPT ![r].st = "waiting", ![r].retried = TRUE,
                                     ![r].hdr = NoHeader, ![r].join = refreshPromise]
               /\ UNCHANGED <<accessToken, cookieJar, refreshPromise, rf>>
          ELSE /\ CanInvoke
               /\ IF slot.posted
                  THEN /\ rf' = rf1
                       /\ refreshPromise' = NextSlot
                       /\ req' = [req EXCEPT ![r].st = "waiting", ![r].retried = TRUE,
                                             ![r].hdr = NoHeader, ![r].join = NextSlot]
                  ELSE /\ NeedsRefresh(q, own) => NextFree(rf1) \in Slot
                       /\ rf' = Invoked(rf1, q, own)
                       /\ refreshPromise' = Finally(NextSlot)
                       /\ req' = [req EXCEPT ![r] = Failed(q, own, NextFree(rf1))]
               /\ UNCHANGED <<accessToken, cookieJar>>
    /\ UNCHANGED <<envFile, cookiesFile>>

\* The answer to the POST of invocation k arrives: the response interceptor,
\* the rest of refreshAccessToken, and what awaits its result. With observe
\* the status of the answer is kept in the invocation's record.
RefreshRespond(k, resp, envIo, cookieIo, observe) ==
    /\ rf[k].st = "inflight"
    /\ LET ses == Session(accessToken, cookieJar, envFile, cookiesFile)
           o == AfterPost(resp, ses, envIo, cookieIo)
           slot == StartRefresh("interceptor")
           seen == IF observe THEN resp.status ELSE NotAnswered
       IN IF ~Resolves(resp.status)
             /\ OnRejected(TRUE, resp.status, FALSE, RefreshUrl) = "refresh"
          THEN \* the refresh request would itself await a refresh
               /\ IF PendingRefresh(refreshPromise)
                  THEN /\ rf' = [rf EXCEPT ![k].st = "waiting", ![k].status = seen]
                       /\ UNCHANGED refreshPromise
                  ELSE /\ CanInvoke
                       /\ rf' = [rf EXCEPT ![k].st = "waiting", ![k].status = seen,
                                           ![NextSlot] = slot]
                       /\ refreshPromise' = IF slot.posted THEN NextSlot ELSE Finally(NextSlot)
               /\ UNCHANGED <<accessToken, cookieJar, envFile, cookiesFile, req>>
          ELSE /\ accessToken' = o.ses.accessToken
               /\ cookieJar' = o.ses.cookieJar
               /\ envFile' = o.ses.envFile
               /\ cookiesFile' = o.ses.cookiesFile
               /\ IF rf[k].by = "interceptor"
                  THEN /\ refreshPromise' = Finally(refreshPromise)
                       /\ req' = Resume(req, k, o.ret, o.ses.accessToken)
                       /\ IF \E r \in Req : req'[r].st = "awaiting" /\ req[r].st = "waiting"
                          THEN /\ CanInvoke
                               /\ rf' = [rf EXCEPT
                                            ![k] = Settled(o.ret, seen),
                                            ![NextSlot] = StartRefresh("validateAndRefreshToken")]
                          ELSE rf' = [rf EXCEPT ![k] = Settled(o.ret, seen)]
                  ELSE /\ rf' = [rf EXCEPT ![k] = Settled(o.ret, seen)]
                       /\ req' = Resolve(req, k, o.ret)
                       /\ UNCHANGED refreshPromise

\* client.refreshAccessToken() called by the user
CallRefresh ==
    /\ CanInvoke
    /\ rf' = [rf EXCEPT ![NextSlot] = StartRefresh("refreshAccessToken")]
    /\ UNCHANGED <<accessToken, cookieJar, envFile, cookiesFile, refreshPromise, req>>

\* client.ensureAuthenticated()
EnsureAuthenticated ==
    /\ IF Truthy(accessToken)
       THEN UNCHANGED rf                        \* return true
       ELSE IF ~hasRefreshToken(cookieJar)
       THEN UNCHANGED rf                        \* return false
       ELSE /\ CanInvoke
            /\ rf' = [rf EXCEPT ![NextSlot] = StartRefresh("ensureAuthenticated")]
    /\ UNCHANGED <<accessToken, cookieJar, envFile, cookiesFile, refreshPromise, req>>

\* The caller makes its calls in the order of their numbers
CanCall(r) == req[r].st = "idle" /\ \A p \in Req : p < r => req[p].st # "idle"

\* The call r of operation op, before it has sent or returned anything
Call(op, url) == [IdleReq EXCEPT !.op = op, !.url = url]

\* The request of call q goes out through the request interceptor
Sent(q) ==
    [q EXCEPT !.st = "sent", !.hdr = RequestInterceptor(accessToken, NoHeader),
              !.sends = 1]

\* client.logout(): POST /api/v1/auth/logout is on its way
Logout(r) ==
    /\ CanCall(r)
    /\ req' = [req EXCEPT ![r] = [Sent(Call("logout", LogoutUrl))
                                     EXCEPT !.was = <<accessToken, cookieJar>>]]
    /\ UNCHANGED <<accessToken, cookieJar, envFile, cookiesFile, refreshPromise, rf>>

\* client.validateAndRefreshToken(): false without a token, else the probe
\* GET /api/users/me is on its way (one such call at a time)
ValidateAndRefreshToken(r) ==
    /\ CanCall(r)
    /\ \A p \in Req : req[p].op = "validateAndRefreshToken" => req[p].st = "done"
    /\ LET q == Call("validateAndRefreshToken", ProfileUrl)
       IN req' = [req EXCEPT ![r] = IF ~Truthy(accessToken)
                                    THEN Returned(q, FALSE, NoResult)
                                    ELSE Sent(q)]
    /\ UNCHANGED <<accessToken, cookieJar, envFile, cookiesFile, refreshPromise, rf>>

\* await client.ensureAuthenticated(), call r of the caller
AwaitEnsureAuthenticated(r) ==
    /\ CanCall(r)
    /\ LET q == Call("ensureAuthenticated", RefreshUrl)
       IN IF Truthy(accessToken)
          THEN /\ req' = [req EXCEPT ![r] = Returned(q, TRUE, NoResult)]
               /\ UNCHANGED rf
          ELSE IF ~hasRefreshToken(cookieJar)
          THEN /\ req' = [req EXCEPT ![r] = Returned(q, FALSE, NoResult)]
               /\ UNCHANGED rf
          ELSE /\ CanInvoke
               /\ rf' = [rf EXCEPT ![NextSlot] = StartRefresh("ensureAuthenticated")]
               /\ req' = [req EXCEPT ![r] =
                              IF rf'[NextSlot].posted
                              THEN Awaiting(q, NoResult, NextSlot)
                              ELSE Returned(q, FALSE, NoResult)]
    /\ UNCHANGED <<accessToken, cookieJar, envFile, cookiesFile, refreshPromise>>

checkAuth_Always(token) == TRUE

\* AuthManager.checkAuth: !!this.client.accessToken
checkAuth(token) == Truthy(token)

\* client.createPost(text): null when checkAuth() is false, else POST
\* /api/posts is on its way
CreatePost(r) ==
    /\ CanCall(r)
    /\ LET q == Call("createPost", ApiUrl)
       IN req' = [req EXCEPT ![r] = IF ~checkAuth(accessToken)
                                    THEN Returned(q, FALSE, NoResult)
                                    ELSE Sent(q)]
    /\ UNCHANGED <<accessToken, cookieJar, envFile, cookiesFile, refreshPromise, rf>>

\* await client.auth.checkAuth(), call r of the caller
CheckAuth(r) ==
    /\ CanCall(r)
    /\ req' = [req EXCEPT ![r] =
                   Returned(Call("checkAuth", ""), checkAuth(accessToken), NoResult)]
    /\ UNCHANGED <<accessToken, cookieJar, envFile, cookiesFile, refreshPromise, rf>>

\* client.setAccessToken(token) called by the caller
SetAccessToken(token) ==
    /\ accessToken' = setAccessToken(token)
    /\ UNCHANGED <<cookieJar, envFile, cookiesFile, refreshPromise, req, rf>>

hasRefreshTokenOrFalse_TrueOnError(jar, lookupOk) == lookupOk => hasRefreshToken(jar)

\* AuthManager.hasRefreshToken with its try / catch: lookupOk = FALSE is
\* getCookiesSync throwing
hasRefreshTokenOrFalse(jar, lookupOk) == IF lookupOk THEN hasRefreshToken(jar) ELSE FALSE

\* client.hasRefreshToken()
HasRefreshToken(r, lookupOk) ==
    /\ CanCall(r)
    /\ req' = [req EXCEPT ![r] =
                   Returned(Call("hasRefreshToken", ""),
                            hasRefreshTokenOrFalse(cookieJar, lookupOk), NoResult)]
    /\ UNCHANGED <<accessToken, cookieJar, envFile, cookiesFile, refreshPromise, rf>>

\* saveAccessToken(newToken, client.envPath) called by the caller
SaveAccessToken(r, newToken, ioOk) ==
    /\ CanCall(r)
    /\ LET saved == saveAccessToken(envFile, newToken, ioOk)
       IN /\ envFile' = saved.file
          /\ req' = [req EXCEPT ![r] =
                         Returned(Call("saveAccessToken", ""), saved.ok, NoResult)]
    /\ UNCHANGED <<accessToken, cookieJar, cookiesFile, refreshPromise, rf>>

\* One step, for the requests, the headers the caller gives, the Set-Cookie
\* headers the server sends and the outcomes of file I/O that are considered
Step(reqs, headers, outcomes, setCookies, io, observe) ==
    \/ \E r \in reqs, h \in headers : Issue(r, h)
    \/ \E r \in reqs, out \in outcomes : Respond(r, out)
    \/ \E k \in Slot : \E resp \in RefreshResponses(k, setCookies) :
          \E envIo \in IF IsRefreshSuccess(resp) THEN io ELSE {TRUE},
             cookieIo \in IF IsRefreshSuccess(resp) /\ resp.setCookie # <<>>
                          THEN io ELSE {TRUE} :
             RefreshRespond(k, resp, envIo, cookieIo, observe)
    \/ CallRefresh
    \/ EnsureAuthenticated

\* Concurrent requests through one client; file writes succeed
Next == Step(Req, {NoHeader}, ApiOutcomes, {Rotated}, {TRUE}, FALSE)

Spec == Init /\ [][Next]_vars

\* One request at a time, with every kind of credential store, cookie store,
\* caller header, Set-Cookie header and file I/O outcome
InitStore ==
    Constructed(InitTokens, {EnvWithToken, EnvWithoutToken, EnvMissing},
                {CookiesMissing, CookiesWithoutRefresh, CookiesWithRefresh})

NextStore == Step({1}, ExplicitHeaders, ApiOutcomes, SetCookieChoices, BOOLEAN, TRUE)

SpecStore == InitStore /\ [][NextStore]_vars

\* One request at a time, with every kind of Set-Cookie header and outcome
\* of the write to the cookie store
NextCookies ==
    Step({1}, {NoHeader}, {out \in ApiOutcomes : out.status \in {StatusOk, StatusUnauthorized}},
         {<<>>, Guarded, Revoked}, BOOLEAN, TRUE)

SpecCookies == Init /\ [][NextCookies]_vars

\* One request at a time, with cookie values of every shape
NextRoundTrip ==
    Step({1}, {NoHeader}, {out \in ApiOutcomes : out.status \in {StatusOk, StatusUnauthorized}},
         {Guarded, Padded}, {TRUE}, TRUE)

SpecRoundTrip == Init /\ [][NextRoundTrip]_vars

\* The answers to the requests of logout, validateAndRefreshToken, createPost
AuthOutcomes ==
    {[status |-> s, hasConfig |-> TRUE] :
        s \in {StatusOk, 201, 204, StatusUnauthorized, 500, NoStatus}}

\* The answers to the calls of the caller and to the refresh POSTs
Answer ==
    \/ \E r \in Req : \E out \in AuthOutcomes : Respond(r, out)
    \/ \E k \in Slot : \E resp \in RefreshResponses(k, {Rotated}) :
          RefreshRespond(k, resp, TRUE, TRUE, FALSE)

\* The operations that tell the caller whether the session is authenticated
NextAuth ==
    \/ \E r \in Req : ValidateAndRefreshToken(r)
    \/ \E r \in Req : AwaitEnsureAuthenticated(r)
    \/ \E r \in Req : CreatePost(r)
    \/ Answer

SpecAuth == Init /\ [][NextAuth]_vars

\* Concurrent logout() calls
NextLogout ==
    \/ \E r \in Req : Logout(r)
    \/ Answer

SpecLogout == Init /\ [][NextLogout]_vars

\* The answers to the requests of logout and createPost that matter to the
\* session: success, and the 401 that makes the interceptor refresh
SessionOutcomes ==
    {[status |-> s, hasConfig |-> TRUE] : s \in {204, StatusUnauthorized}}

\* The tokens the caller sets
SetTokens == {Null, "", "t0"}

\* No call of the caller is under way
Quiet == \A r \in Req : req[r].st \in {"idle", "done"}

\* Everything that sets or clears the session token, with every outcome of
\* file I/O, for a caller that awaits each call before the next and may set
\* the token at any time
NextSession ==
    \/ \E t \in SetTokens : SetAccessToken(t)
    \/ \E r \in Req : Quiet /\ CheckAuth(r)
    \/ \E r \in Req : Quiet /\ CreatePost(r)
    \/ \E r \in Req : Quiet /\ Logout(r)
    \/ \E r \in Req : \E out \in SessionOutcomes : Respond(r, out)
    \/ \E k \in Slot : \E resp \in RefreshResponses(k, {Rotated}) :
          \E envIo \in IF IsRefreshSuccess(resp) THEN BOOLEAN ELSE {TRUE} :
             RefreshRespond(k, resp, envIo, TRUE, FALSE)

SpecSession == Init /\ [][NextSession]_vars

MaxLines == 2      \* lines of a credential-store file the caller starts with

EnvLines == {Line("ITD_BASE_URL", "u"), Line(TokenKey, "t0"), BlankLine}
EnvFiles ==
    {EnvMissing} \cup
    {EnvFile(TRUE, ls) : ls \in UNION {[1..n -> EnvLines] : n \in 0..MaxLines}}

\* The functions a caller can apply to the stores, on every small store
InitCalls ==
    /\ accessToken \in InitTokens
    /\ envFile \in EnvFiles
    /\ cookiesFile \in {CookiesMissing, CookiesWithoutRefresh, CookiesWithRefresh}
    /\ cookieJar = loadCookiesFromFile(cookiesFile)
    /\ refreshPromise = 0
    /\ req = [r \in Req |-> IdleReq]
    /\ rf = [k \in Slot |-> FreeSlot]

NextCalls ==
    \/ \E r \in Req : \E newToken \in {"t0", "t1"} : \E ioOk \in BOOLEAN :
          SaveAccessToken(r, newToken, ioOk)
    \/ \E r \in Req : \E lookupOk \in BOOLEAN : HasRefreshToken(r, lookupOk)

SpecCalls == InitCalls /\ [][NextCalls]_vars

\* ----------------------------------------------------------------- claims
InFlight == {k \in Slot : rf[k].st = "inflight"}
Posted == {k \in Slot : rf[k].posted}

\* A 401 handler that goes on to the refresh: it joins the pending refresh
\* and starts nothing, or, with none pending, starts exactly one POST.
JoinsOrStartsOne(r) ==
    IF refreshPromise # 0
    THEN /\ rf' = rf
         /\ refreshPromise' = refreshPromise
         /\ req'[r].join = refreshPromise
    ELSE /\ refreshPromise' \in Slot
         /\ req'[r].join = refreshPromise'
         /\ rf[refreshPromise'].st = "free"
         /\ rf'[refreshPromise'].st = "inflight"
         /\ \A j \in Slot \ {refreshPromise'} : rf'[j] = rf[j]

\* After the step every waiting request waits on the one pending refresh,
\* whose POST is in flight.
WaitersShareOnePending ==
    \A r \in Req : req'[r].st = "waiting" =>
        /\ refreshPromise' # 0
        /\ req'[r].join = refreshPromise'
        /\ rf'[refreshPromise'].st = "inflight"

\* When the pending refresh k returns, each request that waited on it is
\* replayed with the token k returned, or fails with its own 401.
SettlesAllWaiters(k) ==
    \A r \in Req : req[r].st = "waiting" /\ req[r].join = k =>
        IF Truthy(rf'[k].ret)
        THEN /\ req'[r].st = "sent"
             /\ req'[r].hdr = Bearer(rf'[k].ret)
             /\ req'[r].sends = req[r].sends + 1
        ELSE /\ req'[r].st = "done"
             /\ req'[r].res = Error(StatusUnauthorized, req[r].sends)
             /\ req'[r].sends = req[r].sends

\* C1: requests that receive a 401 while a refresh is pending all join that
\* one refresh (one POST, started by the first handler in the same step that
\* records it); when it returns, all of them are replayed with its token or,
\* without a token, each fails with its own original 401.
C1_SingleRefreshForConcurrent401s ==
    [][ /\ \A r \in Req : req[r].st = "sent" /\ req'[r].st = "waiting"
                          => JoinsOrStartsOne(r)
        /\ WaitersShareOnePending
        /\ \A k \in Slot : rf[k].st = "inflight" /\ rf[k].by = "interceptor"
                           /\ rf'[k].st = "done" => SettlesAllWaiters(k) ]_vars

\* Two requests got their 401 while one refresh was pending and both have
\* been replayed with the token of that single POST.
C1_Witness ==
    \E k \in Slot : \E r1, r2 \in Req :
        /\ r1 # r2
        /\ Posted = {k}
        /\ rf[k].st = "done" /\ Truthy(rf[k].ret)
        /\ \A r \in {r1, r2} : /\ req[r].st = "sent"
                               /\ req[r].sends = 2
                               /\ req[r].hdr = Bearer(rf[k].ret)

\* C2: at most one POST to the refresh endpoint is in flight, whichever
\* operation started it.
C2_AtMostOneRefreshInFlight == Cardinality(InFlight) <= 1

\* C3: the interceptor replays a request at most once (a request is sent at
\* most twice).
C3_ReplayedAtMostOnce == \A r \in Req : req[r].sends <= 2

\* This step ends the wait of invocation k for the answer to its POST
AnsweredNow(k) == rf[k].st = "inflight" /\ rf'[k].st # "inflight"

\* This step is the arrival of answer resp to the POST of invocation k, with
\* the credential-store I/O outcome among envIos
RefreshAnswered(k, resp, envIos) ==
    /\ rf'[k].status = resp.status
    /\ \E envIo \in envIos, cookieIo \in BOOLEAN :
           RefreshRespond(k, resp, envIo, cookieIo, TRUE)

\* C4: a 401 answer to the refresh POST itself starts no refresh and joins
\* none: the invocation returns null in that step, no other invocation is
\* touched, and a marker it held is cleared.
C4_Refresh401NeverRefreshes ==
    [][ \A k \in Slot : AnsweredNow(k) =>
          \A resp \in RefreshResponses(k, SetCookieChoices) :
            (/\ resp.status = StatusUnauthorized
             /\ RefreshAnswered(k, resp, BOOLEAN))
            => /\ rf'[k].st = "done"
               /\ rf'[k].ret = Null
               /\ \A j \in Slot \ {k} : rf'[j] = rf[j]
               /\ refreshPromise' = IF rf[k].by = "interceptor" THEN 0
                                    ELSE refreshPromise
               /\ accessToken' = accessToken ]_vars

\* The refresh started by the interceptor was answered 401 and returned null
C4_Witness ==
    \E k \in Slot : /\ rf[k].st = "done" /\ rf[k].status = StatusUnauthorized
                    /\ rf[k].ret = Null
                    /\ refreshPromise = 0
                    /\ \E r \in Req : req[r].res = Error(StatusUnauthorized, 1)

\* The jar holds no cookie named refresh_token
NoRefreshCookie == \A i \in DOMAIN cookieJar : cookieJar[i].key # "refresh_token"

\* C5: without a refresh_token cookie in the jar, refreshAccessToken()
\* returns null with no network call and leaves the session token, the
\* cookie jar, the credential-store file and the cookie-store file as they
\* were.
C5_NoCookieNoCallNoChange ==
    [][ \A k \in Slot :
            (/\ NoRefreshCookie
             /\ rf[k].st = "free"
             /\ rf'[k].st # "free")
            => /\ rf'[k].st = "done"
               /\ rf'[k].ret = Null
               /\ ~rf'[k].posted
               /\ \A j \in Slot \ {k} : rf'[j] = rf[j]
               /\ UNCHANGED <<accessToken, cookieJar, envFile, cookiesFile>> ]_vars

\* refreshAccessToken() has returned without a POST, to a client that holds
\* a token and a credential store
C5_Witness ==
    \E k \in Slot : /\ rf[k].st = "done" /\ ~rf[k].posted /\ rf[k].ret = Null
                    /\ NoRefreshCookie
                    /\ Truthy(accessToken)
                    /\ envFile.exists

\* The answers after which refreshAccessToken() has no token to return
RefreshFailures(k) ==
    {resp \in RefreshResponses(k, SetCookieChoices) :
        \/ resp.status # StatusOk
        \/ resp.accessToken = Null}

\* C6: refreshAccessToken() never throws: after a non-200 answer, a 200
\* without accessToken, no response at all, or REFRESH_TOKEN_MISSING, it
\* returns null.
C6_RefreshNeverThrows ==
    [][ /\ \A k \in Slot : rf'[k].ret # Threw
        /\ \A k \in Slot : AnsweredNow(k) => \A resp \in RefreshFailures(k) :
              RefreshAnswered(k, resp, BOOLEAN)
              => /\ rf'[k].st = "done"
                 /\ rf'[k].ret = Null ]_vars

\* One invocation got no response at all, another one an error status, and
\* both returned null
C6_Witness ==
    \E k1, k2 \in Slot :
        /\ rf[k1].st = "done" /\ rf[k1].status = NoStatus /\ rf[k1].ret = Null
        /\ rf[k2].st = "done" /\ rf[k2].status \in {StatusUnauthorized, 500}
        /\ rf[k2].ret = Null

\* C7: answered 200 with a non-empty accessToken T, refreshAccessToken() sets
\* the session token to T and returns T; after any other answer, and without
\* a POST, it returns null.
C7_TokenExactlyOn200WithToken ==
    [][ /\ \A k \in Slot : AnsweredNow(k) =>
            \A resp \in RefreshResponses(k, SetCookieChoices) :
              RefreshAnswered(k, resp, BOOLEAN)
              => IF resp.status = 200 /\ resp.accessToken \notin {Null, ""}
                 THEN /\ rf'[k].st = "done"
                      /\ rf'[k].ret = resp.accessToken
                      /\ accessToken' = resp.accessToken
                 ELSE /\ rf'[k].ret = Null
                      /\ accessToken' = accessToken
        /\ \A k \in Slot : rf'[k].ret # Null =>
              rf'[k].st = "done" /\ rf'[k].posted /\ rf'[k].status = 200 ]_vars

\* A 200 with a token has replaced the token the session held
C7_Witness ==
    \E k \in Slot : /\ rf[k].st = "done" /\ rf[k].status = 200
                    /\ rf[k].ret = ServerToken(k)
                    /\ accessToken = ServerToken(k)

\* The invocation k returns a token in this step, to a client whose
\* credential-store file exists: the file then reads ITD_ACCESS_TOKEN=T and
\* the session holds T.
FileHoldsReturnedToken(k) ==
    (rf'[k].ret # Null /\ envFile.exists)
    => /\ EnvTokens(envFile') = {rf'[k].ret}
       /\ accessToken' = rf'[k].ret

SentWith(token, carried) ==
    IF carried # NoHeader THEN carried
    ELSE IF token # Null THEN <<"Bearer", token>>
    ELSE NoHeader

\* C9: every outgoing request (a request of the caller, the refresh POST, a
\* replay) goes out with Bearer <session token> when the session holds a
\* token and the request carries no Authorization header, with its own
\* header when it carries one, and with none when the session holds no token.
C9_AuthorizationHeaderRules ==
    [][ /\ \A r \in Req : \A h \in ExplicitHeaders :
              Issue(r, h) => req'[r].hdr = SentWith(accessToken, h)
        /\ \A k \in Slot : rf[k].st = "free" /\ rf'[k].st = "inflight"
              => rf'[k].hdr = SentWith(accessToken, NoHeader)
        /\ \A r \in Req : req[r].st = "waiting" /\ req'[r].st = "sent"
              => req'[r].hdr = SentWith(accessToken', <<"Bearer", rf'[req[r].join].ret>>)
      ]_vars

\* A request that carries its own Authorization header is on its way from a
\* client that holds a token
C9_Witness ==
    \E r \in Req : /\ req[r].st = "sent"
                   /\ req[r].hdr = <<"Basic", "x">>
                   /\ accessToken # Null

\* C10: an error whose status is not 401 (another 4xx/5xx, or no response at
\* all) goes to the caller as it is: no refresh call, no replay, the session
\* token and the pending-refresh marker unchanged.
C10_OtherErrorsPassThrough ==
    [][ \A r \in Req : \A out \in ApiOutcomes :
            (/\ ~Resolves(out.status)
             /\ out.status # StatusUnauthorized
             /\ req[r].st = "sent"
             /\ req'[r].st # "sent"
             /\ Respond(r, out))
            => /\ req'[r].st = "done"
               /\ req'[r].res = Error(out.status, req[r].sends)
               /\ req'[r].sends = req[r].sends
               /\ \A p \in Req \ {r} : req'[p] = req[p]
               /\ UNCHANGED <<accessToken, refreshPromise, rf>> ]_vars

\* A 500 has been passed to the caller while another request's refresh is
\* pending
C10_Witness ==
    \E r \in Req : /\ req[r].st = "done"
                   /\ req[r].res = Error(500, 1)
                   /\ refreshPromise # 0

\* C11: a request whose 401 led to a refresh (started or joined) that yields
\* no token ends with its own 401 error and is not sent again.
C11_NoTokenGivesOriginal401 ==
    [][ /\ \A k \in Slot :
              (/\ rf[k].st = "inflight" /\ rf[k].by = "interceptor"
               /\ rf'[k].st = "done" /\ rf'[k].ret \in {Null, ""})
              => \A r \in Req : req[r].st = "waiting" /\ req[r].join = k =>
                    /\ req'[r].st = "done"
                    /\ req'[r].res = Error(StatusUnauthorized, req[r].sends)
                    /\ req'[r].sends = req[r].sends
        /\ \A r \in Req :
              (/\ NoRefreshCookie
               /\ refreshPromise = 0
               /\ req[r].st = "sent"
               /\ Respond(r, [status |-> StatusUnauthorized, hasConfig |-> TRUE]))
              => /\ req'[r].st = "done"
                 /\ req'[r].res = Error(StatusUnauthorized, req[r].sends)
                 /\ req'[r].sends = req[r].sends ]_vars

\* Two requests joined one refresh, it returned no token, and each ended
\* with the 401 of its only send
C11_Witness ==
    \E k \in Slot :
        /\ Posted = {k}
        /\ rf[k].st = "done" /\ rf[k].ret = Null
        /\ \E r1, r2 \in Req :
              /\ r1 # r2
              /\ \A r \in {r1, r2} : /\ req[r].st = "done"
                                     /\ req[r].sends = 1
                                     /\ req[r].res = Error(StatusUnauthorized, 1)

\* The call r of logout() returns in this step
LogoutReturns(r) ==
    req[r].op = "logout" /\ req[r].st # "done" /\ req'[r].st = "done"

\* logout() returns true exactly for a last answer 200 or 204, and then the
\* session has no token and the jar is empty
LogoutTrueOn200Or204(r) ==
    /\ req'[r].ret \in {"true", "false"}
    /\ req'[r].ret = "true" <=>
          (req'[r].res.kind = "response" /\ req'[r].res.status \in {200, 204})
    /\ req'[r].ret = "true" =>
          /\ accessToken' = Null
          /\ cookieJar' = <<>>
          /\ ~(\E i \in DOMAIN cookieJar' : cookieJar'[i].key = "refresh_token")

\* C12 as stated: logout() returns true exactly when its POST is answered
\* 200 or 204, and then the token is absent and the jar empty; when it
\* returns false the token and the jar are what they were when it was called.
C12_LogoutClearsOrLeaves ==
    [][ \A r \in Req : LogoutReturns(r) =>
            /\ LogoutTrueOn200Or204(r)
            /\ req'[r].ret = "false" =>
                  /\ accessToken' = req[r].was[1]
                  /\ cookieJar' = req[r].was[2] ]_vars

\* C12 amended: logout() returns true exactly when the last answer to its
\* POST is 200 or 204, and then the token is absent and the jar empty; when
\* it returns false, the step in which it returns changes neither the token
\* nor the jar (what a refresh set after a 401 answer to the POST remains).
C12_LogoutClearsOrLeavesInStep ==
    [][ \A r \in Req : LogoutReturns(r) =>
            /\ LogoutTrueOn200Or204(r)
            /\ req'[r].ret = "false" =>
                  /\ accessToken' = accessToken
                  /\ cookieJar' = cookieJar ]_vars

\* A logout() that found a token and a refresh cookie has returned true; the
\* token and the cookies are gone, and another logout() has returned false
C12_Witness ==
    \E r1, r2 \in Req :
        /\ req[r1].op = "logout" /\ req[r1].ret = "true"
        /\ req[r1].res.status = 204
        /\ req[r2].op = "logout" /\ req[r2].ret = "false"
        /\ accessToken = Null
        /\ cookieJar = <<>>
        /\ cookiesFile = CookiesWithRefresh

\* The positions of the ITD_ACCESS_TOKEN lines
TokenLines(lines) == {i \in DOMAIN lines : lines[i].key = "ITD_ACCESS_TOKEN"}

\* new is old with T saved: the first ITD_ACCESS_TOKEN line replaced in
\* place, or, without such a line, one appended; all other lines kept
SavedInto(old, new, T) ==
    IF TokenLines(old) # {}
    THEN /\ Len(new) = Len(old)
         /\ Cardinality(TokenLines(new)) = Cardinality(TokenLines(old))
         /\ \E i \in TokenLines(old) :
               /\ \A j \in TokenLines(old) : i <= j
               /\ new[i] = [key |-> "ITD_ACCESS_TOKEN", val |-> T]
               /\ \A j \in DOMAIN old : j # i => new[j] = old[j]
    ELSE /\ Len(new) > Len(old)
         /\ SubSeq(new, 1, Len(old)) = old
         /\ TokenLines(new) = {Len(old) + 1}
         /\ new[Len(old) + 1] = [key |-> "ITD_ACCESS_TOKEN", val |-> T]
         /\ \A j \in DOMAIN new : j > Len(old) + 1 => new[j] = [key |-> "", val |-> ""]

\* C13: saveAccessToken(T) on an existing file replaces the ITD_ACCESS_TOKEN
\* line in place without adding one, or appends exactly one when there is
\* none, keeps every other line, and saving T again changes nothing.
C13_SaveReplacesOrAppendsOnce ==
    [][ \A r \in Req : (req[r].st = "idle" /\ req'[r].op = "saveAccessToken") =>
          \A T \in {"t0", "t1"} :
            (envFile.exists /\ SaveAccessToken(r, T, TRUE))
            => /\ req'[r].ret = "true"
               /\ envFile'.exists
               /\ SavedInto(envFile.lines, envFile'.lines, T)
               /\ saveAccessToken(envFile', T, TRUE).file = envFile' ]_vars

\* A token line that stood before another line has been replaced where it
\* stood
C13_Witness ==
    /\ \E r \in Req : req[r].op = "saveAccessToken" /\ req[r].ret = "true"
    /\ envFile = EnvFile(TRUE, <<Line(TokenKey, "t1"), Line("ITD_BASE_URL", "u")>>)

\* C16: when the credential-store file does not exist, saveAccessToken(T)
\* creates no file, writes nothing, and returns false (it does not throw).
C16_NoFileNoWrite ==
    [][ \A r \in Req : (req[r].st = "idle" /\ req'[r].op = "saveAccessToken"
                        /\ ~envFile.exists)
            => /\ envFile' = envFile
               /\ req'[r].st = "done"
               /\ req'[r].ret = "false" ]_vars

\* saveAccessToken has returned false and there is still no file
C16_Witness ==
    /\ \E r \in Req : req[r].op = "saveAccessToken" /\ req[r].ret = "false"
    /\ ~envFile.exists

\* C17: hasRefreshToken() returns true exactly when the jar holds a cookie
\* named refresh_token, and false (it never throws) when the jar lookup
\* fails.
C17_HasRefreshTokenIffCookie ==
    [][ \A r \in Req : (req[r].st = "idle" /\ req'[r].op = "hasRefreshToken") =>
          \A lookupOk \in BOOLEAN :
            HasRefreshToken(r, lookupOk)
            => /\ req'[r].st = "done"
               /\ req'[r].ret \in {"true", "false"}
               /\ req'[r].ret = "true" <=> (lookupOk /\ ~NoRefreshCookie) ]_vars

\* On a jar with a refresh_token cookie one call returned true and one,
\* whose lookup failed, false
C17_Witness ==
    \E r1, r2 \in Req :
        /\ req[r1].op = "hasRefreshToken" /\ req[r1].ret = "true"
        /\ req[r2].op = "hasRefreshToken" /\ req[r2].ret = "false"
        /\ ~NoRefreshCookie

\* The names a refresh may write to the cookie store
AllowList == {"refresh_token", "is_auth"} \cup DdgNames

\* The cookie-store file after the step, for a successful refresh whose
\* answer carried Set-Cookie headers: the allow-listed cookies of the jar as
\* name=value joined with "; ", and the file as it was when there are none
CookieStoreHoldsAllowListed ==
    LET listed == SelectSeq(cookieJar', LAMBDA c : c.key \in AllowList)
    IN IF listed = <<>> THEN cookiesFile' = cookiesFile
       ELSE /\ cookiesFile'.exists
            /\ cookiesFile'.content = JoinCookies(listed)
            /\ \A i \in DOMAIN cookiesFile'.content :
                  (i < Len(cookiesFile'.content) /\ cookiesFile'.content[i + 1] = "=")
                  => cookiesFile'.content[i] \in AllowList

\* Invocation k got a 200 with a token in this step
RefreshSucceeds(k) ==
    /\ rf[k].st = "inflight"
    /\ rf'[k].st = "done"
    /\ rf'[k].status = 200
    /\ rf'[k].ret # Null

\* The answers 200 with a token, with every kind of Set-Cookie header
TokenResponses(k) ==
    {resp \in RefreshResponses(k, {<<>>, Guarded, Revoked}) :
        resp.status = 200 /\ resp.accessToken \notin {Null, ""}}

\* C14 as stated: after a successful refresh whose answer carries Set-Cookie
\* headers the cookie-store file holds exactly the allow-listed cookies of
\* the jar (left alone when there are none); without Set-Cookie headers, and
\* in every other step, the file is left as it was.
C14_CookieStoreAllowListed ==
    [][ /\ \A k \in Slot : RefreshSucceeds(k) =>
              \A resp \in TokenResponses(k) :
                 (\E io \in BOOLEAN : RefreshRespond(k, resp, TRUE, io, TRUE))
                 => IF resp.setCookie # <<>>
                    THEN CookieStoreHoldsAllowListed
                    ELSE cookiesFile' = cookiesFile
        /\ (\A k \in Slot : ~RefreshSucceeds(k)) => cookiesFile' = cookiesFile ]_vars

\* C14 amended: the same, provided the write to the cookie-store file
\* succeeds; when it fails the file is left as it was.
C14_CookieStoreAllowListedIfWritten ==
    [][ /\ \A k \in Slot : RefreshSucceeds(k) =>
              \A resp \in TokenResponses(k) :
                 /\ RefreshRespond(k, resp, TRUE, TRUE, TRUE) =>
                       IF resp.setCookie # <<>>
                       THEN CookieStoreHoldsAllowListed
                       ELSE cookiesFile' = cookiesFile
                 /\ RefreshRespond(k, resp, TRUE, FALSE, TRUE) =>
                       cookiesFile' = cookiesFile
        /\ (\A k \in Slot : ~RefreshSucceeds(k)) => cookiesFile' = cookiesFile ]_vars

\* The jar holds the rotated refresh_token, the __ddg cookie and one that is
\* not allow-listed; the file holds the allow-listed three
C14_Witness ==
    /\ \E i \in DOMAIN cookieJar : cookieJar[i].key = "sid"
    /\ cookiesFile.exists
    /\ cookiesFile.content =
          <<"refresh_token", "=", "r2", ";", " ", "is_auth", "=", "1", ";", " ",
            "__ddg1_", "=", "d">>

\* C15: a refresh answered 200 with a token sets the session token to it and
\* returns it also when persisting fails: the credential-store file is
\* missing, or the write to either file (or the reading of the jar for it)
\* throws.
C15_PersistFailureKeepsSuccess ==
    [][ \A k \in Slot : (AnsweredNow(k) /\ rf'[k].status = 200) =>
          \A resp \in {x \in RefreshResponses(k, SetCookieChoices) : x.status = 200} :
            \A envIo, cookieIo \in BOOLEAN :
              (/\ resp.accessToken \notin {Null, ""}
               /\ ~envFile.exists \/ ~envIo \/ ~cookieIo
               /\ RefreshRespond(k, resp, envIo, cookieIo, TRUE))
              => /\ rf'[k].st = "done"
                 /\ rf'[k].ret = resp.accessToken
                 /\ accessToken' = resp.accessToken ]_vars

\* A refresh has returned its token to a session that holds it, though the
\* credential store does not hold it and the cookie store does not hold the
\* rotated refresh_token of the jar
C15_Witness ==
    \E k \in Slot :
        /\ rf[k].st = "done" /\ rf[k].status = 200 /\ rf[k].ret = ServerToken(k)
        /\ accessToken = ServerToken(k)
        /\ EnvTokens(envFile) # {ServerToken(k)}
        /\ \E i \in DOMAIN cookieJar : cookieJar[i] = Cookie("refresh_token", <<"r2">>)
        /\ cookiesFile \in {CookiesMissing, CookiesWithRefresh}

\* The call r of operation op returns in this step
Returns(r, op) == req'[r].op = op /\ req[r].st # "done" /\ req'[r].st = "done"

\* The call r starts its own refreshAccessToken() in this step: one more
\* invocation, whose POST is in flight, and the call awaits it
StartsOwnRefresh(r) ==
    /\ req'[r].st = "awaiting"
    /\ req'[r].join \in Slot
    /\ rf[req'[r].join].st = "free"
    /\ rf'[req'[r].join].st = "inflight"
    /\ rf'[req'[r].join].by = req'[r].op

\* The call r, which awaited its own refreshAccessToken(), returns whether
\* that invocation returned a token
ReturnsOwnRefresh(r) ==
    /\ rf[req[r].join].st = "inflight"
    /\ rf'[req[r].join].st = "done"
    /\ req'[r].ret = "true" <=> rf'[req[r].join].ret \notin {Null, ""}

\* C18: ensureAuthenticated() returns true with no network call when the
\* session holds a token, false with no network call when it holds none and
\* the jar has no refresh_token cookie; otherwise it performs a refresh and
\* returns true exactly when the refresh yielded a token. Whenever it returns
\* true the session holds a token.
C18_EnsureAuthenticated ==
    [][ \A r \in Req :
          /\ (req[r].st = "idle" /\ req'[r].op = "ensureAuthenticated") =>
                IF accessToken # Null
                THEN req'[r].st = "done" /\ req'[r].ret = "true" /\ rf' = rf
                ELSE IF NoRefreshCookie
                THEN req'[r].st = "done" /\ req'[r].ret = "false" /\ rf' = rf
                ELSE StartsOwnRefresh(r)
          /\ (req[r].st = "awaiting" /\ Returns(r, "ensureAuthenticated")) =>
                ReturnsOwnRefresh(r)
          /\ (Returns(r, "ensureAuthenticated") /\ req'[r].ret = "true") =>
                accessToken' # Null ]_vars

\* With a refresh_token cookie in the jar one ensureAuthenticated() has
\* returned false (its refresh yielded no token) and one true
C18_Witness ==
    \E r1, r2 \in Req :
        /\ req[r1].op = "ensureAuthenticated" /\ req[r1].ret = "false"
        /\ req[r2].op = "ensureAuthenticated" /\ req[r2].ret = "true"
        /\ ~NoRefreshCookie
        /\ accessToken # Null

\* C19: validateAndRefreshToken() returns false with no network call when
\* the session holds no token; otherwise it returns true exactly when its
\* probe ended with status 200 (at once or after the interceptor's replay)
\* or the refresh it performed after the probe's 401 yielded a token.
C19_ValidateAndRefreshToken ==
    [][ \A r \in Req :
          /\ (req[r].st = "idle" /\ req'[r].op = "validateAndRefreshToken") =>
                IF accessToken = Null
                THEN /\ req'[r].st = "done" /\ req'[r].ret = "false"
                     /\ req'[r].sends = 0 /\ rf' = rf
                ELSE req'[r].st = "sent" /\ req'[r].url = "/api/users/me"
          /\ (req[r].st = "sent" /\ req'[r].op = "validateAndRefreshToken") =>
                \A out \in AuthOutcomes :
                   (out.status \in 200..299 /\ Respond(r, out)) =>
                      /\ req'[r].st = "done"
                      /\ req'[r].ret = "true" <=> out.status = 200
          /\ (req[r].st \in {"sent", "waiting"}
              /\ Returns(r, "validateAndRefreshToken")) =>
                /\ req'[r].ret = "true" <=>
                      (req'[r].res.kind = "response" /\ req'[r].res.status = 200)
                /\ (req'[r].res.kind = "error" /\ req'[r].res.status = 401)
                      => NoRefreshCookie
          /\ (req[r].st \in {"sent", "waiting"} /\ req'[r].st = "awaiting") =>
                /\ req'[r].res.kind = "error" /\ req'[r].res.status = 401
                /\ StartsOwnRefresh(r)
          /\ (req[r].st = "awaiting" /\ Returns(r, "validateAndRefreshToken")) =>
                ReturnsOwnRefresh(r) ]_vars

\* A validateAndRefreshToken() whose probe ended with a 401 has returned
\* true, and the session holds the token of a refresh
C19_Witness ==
    \E r \in Req : \E k \in Slot :
        /\ req[r].op = "validateAndRefreshToken" /\ req[r].ret = "true"
        /\ req[r].res.kind = "error" /\ req[r].res.status = 401
        /\ rf[k].st = "done" /\ accessToken = rf[k].ret

\* C20: without a refresh_token cookie in the jar, createPost() returns its
\* failure value and sends nothing.
C20_NoCookieNoNetwork ==
    [][ \A r \in Req :
          (req[r].st = "idle" /\ req'[r].op = "createPost" /\ NoRefreshCookie)
          => /\ req'[r].st = "done"
             /\ req'[r].ret = "false"
             /\ req'[r].sends = 0 ]_vars

\* C22: a request replayed after a refresh carries the token returned by the
\* refresh it joined, which returns in the step of the replay: not the token
\* the session held until then, and no other token while the replay is in
\* flight.
C22_ReplayCarriesJoinedToken ==
    [][ /\ \A r \in Req : (req[r].st = "waiting" /\ req'[r].st = "sent") =>
              /\ rf[req[r].join].st = "inflight"
              /\ rf'[req[r].join].st = "done"
              /\ rf'[req[r].join].ret \notin {Null, ""}
              /\ req'[r].hdr = Bearer(rf'[req[r].join].ret)
              /\ req'[r].hdr # Bearer(accessToken)
        /\ \A r \in Req : (req[r].st = "sent" /\ req'[r].st = "sent") =>
              req'[r].hdr = req[r].hdr ]_vars

\* A replay in flight carries the token of the refresh it joined while the
\* session already holds the token of a later refresh
C22_Witness ==
    \E r \in Req : \E k1, k2 \in Slot :
        /\ k1 # k2
        /\ req[r].st = "sent" /\ req[r].sends = 2
        /\ rf[k1].st = "done" /\ req[r].hdr = Bearer(rf[k1].ret)
        /\ rf[k2].st = "done" /\ accessToken = rf[k2].ret
        /\ accessToken \notin {Null, rf[k1].ret}

\* C26: a request replayed after its refresh yielded a token ends with the
\* outcome of the replay: the response when the replay is answered 2xx, the
\* error when the replay fails, whatever the status of the failure.
C26_CallerGetsReplayOutcome ==
    [][ \A r \in Req :
          (req[r].st = "sent" /\ req[r].sends >= 2 /\ req'[r] # req[r]) =>
             \A out \in ApiOutcomes :
                Respond(r, out) =>
                   /\ req'[r].st = "done"
                   /\ req'[r].sends = req[r].sends
                   /\ req'[r].res.status = out.status
                   /\ req'[r].res.kind =
                         IF out.status \in 200..299 THEN "response" ELSE "error" ]_vars

\* Some logout() has returned true
LoggedOut == \E r \in Req : req[r].op = "logout" /\ req[r].ret = "true"

\* C28: once logout() has returned true and the session holds neither a
\* token nor a refresh_token cookie, it stays so (the caller starts no
\* refresh, sets no token and supplies no cookie): a refresh that was in
\* flight puts nothing back.
C28_InFlightRefreshPutsNothingBack ==
    [][ (LoggedOut /\ accessToken = Null /\ NoRefreshCookie)
        => /\ accessToken' = Null
           /\ \A i \in DOMAIN cookieJar' : cookieJar'[i].key # "refresh_token" ]_vars

\* Only call 1 has been made, an operation op
OnlyCall(op) == req[1].op = op /\ \A r \in Req \ {1} : req[r].st = "idle"

\* C29: one validateAndRefreshToken() call, whose probe has not been
\* replayed, has caused at most one POST to the refresh endpoint.
C29_ValidateRefreshesAtMostOnce ==
    (OnlyCall("validateAndRefreshToken") /\ req[1].sends <= 1)
    => Cardinality(Posted) <= 1

\* The cookie-store file holds a pair refresh_token=...
FileNamesRefreshToken(file) ==
    /\ file.exists
    /\ \E i \in DOMAIN file.content :
          /\ file.content[i] = "refresh_token"
          /\ i < Len(file.content)
          /\ file.content[i + 1] = "="
          /\ i > 1 => file.content[i - 1] \in {";", " "}

\* C30: the step in which logout() handles the answer to its POST leaves the
\* credential-store file and the cookie-store file as they are; when it
\* returns true the session holds no token and no cookie while the files
\* keep theirs, and a client constructed on a cookie-store file that names
\* refresh_token has that cookie in its jar.
C30_LogoutLeavesFiles ==
    [][ \A r \in Req : (req[r].op = "logout" /\ req[r].st = "sent"
                        /\ req'[r] # req[r]) =>
          /\ envFile' = envFile
          /\ cookiesFile' = cookiesFile
          /\ req'[r].ret = "true" =>
                /\ accessToken' = Null
                /\ cookieJar' = <<>>
                /\ FileNamesRefreshToken(cookiesFile') =>
                      \E i \in DOMAIN loadCookiesFromFile(cookiesFile') :
                          loadCookiesFromFile(cookiesFile')[i].key = "refresh_token" ]_vars

\* logout() has returned true, the session is empty, and the files still
\* hold a token and the refresh_token cookie
C30_Witness ==
    /\ LoggedOut
    /\ accessToken = Null /\ cookieJar = <<>>
    /\ EnvTokens(envFile) # {}
    /\ FileNamesRefreshToken(cookiesFile)

\* C24: a request completes after finitely many refreshes and replays: once
\* it has been replayed, the answer to the replay ends it and it never waits
\* for another refresh.
C24_ReplayedRequestCompletes ==
    [][ \A r \in Req : (req[r].st = "sent" /\ req[r].sends >= 2) =>
            req'[r].st \in {"sent", "done"} ]_vars

\* C23: the marker is empty until a refresh is invoked; when set it holds an invocation that
\* the interceptor started and whose POST is not answered yet; in the step
\* that invocation returns, with a token or without, the marker is emptied
\* and no request waits on it any more; a 401 handled with the marker empty
\* starts a new POST and never joins an invocation that has returned.
C23_MarkerOnlyWhileUnsettled ==
    [][ /\ (\A k \in Slot : rf[k].st = "free") => refreshPromise = 0
        /\ refreshPromise' # 0 =>
              /\ rf'[refreshPromise'].st = "inflight"
              /\ rf'[refreshPromise'].by = "interceptor"
        /\ \A k \in Slot : (rf[k].by = "interceptor" /\ AnsweredNow(k)) =>
              /\ refreshPromise' = 0
              /\ \A r \in Req : ~(req'[r].st = "waiting" /\ req'[r].join = k)
        /\ \A r \in Req : (req[r].st = "sent" /\ req'[r].st = "waiting") =>
              /\ rf'[req'[r].join].st = "inflight"
              /\ refreshPromise = 0 =>
                    /\ rf[req'[r].join].st = "free"
                    /\ rf'[req'[r].join].posted ]_vars

\* A refresh of the interceptor has returned a token, its request was
\* replayed, and a 401 handled since waits on a second refresh in flight
C23_Witness ==
    \E r1, r2 \in Req : \E k \in Slot :
        /\ req[r1].sends >= 2
        /\ rf[k].st = "done" /\ rf[k].ret \notin {Null, ""}
        /\ refreshPromise \notin {0, k}
        /\ rf[refreshPromise].st = "inflight"
        /\ req[r2].st = "waiting" /\ req[r2].join = refreshPromise

\* The call r of operation op is made in this step
Calls(r, op) == req[r].st = "idle" /\ req'[r].op = op /\ req'[r].st # "idle"

C25_NullRefreshChangesNothing ==
    [][ /\ \A k \in Slot : (rf[k].st = "free" /\ rf'[k].st # "free") =>
              UNCHANGED <<accessToken, envFile, cookiesFile>>
        /\ \A k \in Slot : (AnsweredNow(k) /\ rf'[k].st = "done"
                            /\ rf'[k].ret = Null) =>
              UNCHANGED <<accessToken, envFile, cookiesFile>>
        /\ accessToken' # accessToken =>
              \/ \E k \in Slot : /\ AnsweredNow(k)
                                 /\ rf'[k].ret = accessToken'
                                 /\ accessToken' \notin {Null, ""}
              \/ \E r \in Req : /\ Returns(r, "logout")
                                /\ req'[r].ret = "true"
                                /\ accessToken' = Null
              \/ \E t \in SetTokens : SetAccessToken(t) ]_vars

\* A refresh whose POST was answered has returned null and the session and
\* the files are those of the constructor
C25_Witness ==
    \E k \in Slot :
        /\ rf[k].st = "done" /\ rf[k].posted /\ rf[k].ret = Null
        /\ accessToken = "t0"
        /\ envFile = EnvWithToken
        /\ cookiesFile = CookiesWithRefresh

\* The allow-listed cookies of a jar
Listed(jar) == SelectSeq(jar, LAMBDA c : c.key \in AllowList)

\* C27: the cookie-store file a refresh writes, loaded by a newly constructed
\* client, gives a jar with exactly the name/value pairs that were written
\* (the allow-listed cookies of the jar), values with "=" included; the new
\* jar has refresh_token whenever the written pairs had it.
C27_CookieStoreRoundTrip ==
    [][ cookiesFile' # cookiesFile =>
          /\ \E k \in Slot : AnsweredNow(k) /\ rf'[k].ret \notin {Null, ""}
          /\ loadCookiesFromFile(cookiesFile') = Listed(cookieJar')
          /\ (\E i \in DOMAIN cookieJar' : cookieJar'[i].key = "refresh_token")
             => \E j \in DOMAIN loadCookiesFromFile(cookiesFile') :
                   loadCookiesFromFile(cookiesFile')[j].key = "refresh_token" ]_vars

\* A refresh has written a file whose refresh_token value ends with "==",
\* which a new client would load as it is in this jar
C27_Witness ==
    /\ cookiesFile.exists
    /\ \E i \in DOMAIN cookieJar :
          /\ cookieJar[i] = Cookie("refresh_token", <<"r2", "=", "=">>)
          /\ \E j \in DOMAIN loadCookiesFromFile(cookiesFile) :
                loadCookiesFromFile(cookiesFile)[j] = cookieJar[i]
    /\ \E i \in DOMAIN cookieJar : cookieJar[i] = Cookie("is_auth", <<>>)
    /\ \E k \in Slot : rf[k].st = "done" /\ rf[k].ret = accessToken
                       /\ accessToken # Null

====
